---- MODULE Spec2Model ----
(***************************************************************************)
(* Ride-analysis engine of garmin-data-agent: the RideDataAgent of         *)
(* src/src/agents/data_analyzer.py (load, gradient/climb analysis, power   *)
(* zones, position segments, the query router), the metrics extractor and  *)
(* the request handlers of src/app.py that drive the shared analyzer.      *)
(*                                                                         *)
(* Representation.                                                         *)
(*   - A float is a fraction [num, den] with den > 0; NaN is 0/0.          *)
(*   - A DataFrame is [none, columns, rows]: rows is the sequence of rows  *)
(*     in positional order, each a function from the column names to a     *)
(*     cell; a cell is << >> (NaN / missing) or <<v>>.                     *)
(*   - A dict is [none, d] with d a function from the keys it holds; none  *)
(*     marks Python's None.                                                *)
(*   - A query is a sequence of words; the text is the words joined by one *)
(*     blank, so a phrase occurs in the text iff its words occur as a      *)
(*     contiguous run.                                                     *)
(***************************************************************************)
EXTENDS Integers, Sequences, FiniteSets, TLC

\* Bounds of the model.
MaxRows == 3
MaxQueryLen == 3
MaxRetries == 3

---------------------------------------------------------------------------
\* Floats as fractions.

Rat(n, d) == [num |-> n, den |-> d]
NaN == Rat(0, 0)
Inf == Rat(1, 0)
Zero == Rat(0, 1)
FromInt(n) == Rat(n, 1)
IsNaN(x) == x = NaN

RECURSIVE GCD(_, _)
GCD(a, b) == IF b = 0 THEN a ELSE GCD(b, a % b)

Abs(a) == IF a < 0 THEN -a ELSE a

\* n / d for d > 0 in lowest terms, so that equal floats are equal values.
Frac(n, d) == LET g == GCD(Abs(n), d) IN Rat(n \div g, d \div g)

\* x * c and x + y for finite operands, NaN absorbing.
Times(x, c) ==
    IF IsNaN(x) \/ IsNaN(c) THEN NaN ELSE Frac(x.num * c.num, x.den * c.den)
Plus(x, y) ==
    IF IsNaN(x) \/ IsNaN(y) THEN NaN
    ELSE Frac(x.num * y.den + y.num * x.den, x.den * y.den)

\* a/b > c/d for b, d > 0, by comparing integer parts and then the
\* reciprocals of the fractional parts (no product of the operands is formed).
RECURSIVE GreaterFrac(_, _, _, _)
GreaterFrac(a, b, c, d) ==
    IF a \div b # c \div d THEN a \div b > c \div d
    ELSE IF a % b = 0 THEN FALSE
    ELSE IF c % d = 0 THEN TRUE
    ELSE GreaterFrac(d, c % d, b, a % b)

\* x > y on floats: any comparison with NaN is false.
Greater(x, y) ==
    /\ ~IsNaN(x) /\ ~IsNaN(y)
    /\ y # Inf
    /\ (x = Inf \/ GreaterFrac(x.num, x.den, y.num, y.den))

\* x >= y and x < y on floats.
GreaterEq(x, y) == ~IsNaN(x) /\ ~IsNaN(y) /\ ~Greater(y, x)
Less(x, y) == Greater(y, x)

\* a / b for integers, sign carried by the numerator.
Quot(a, b) == IF b < 0 THEN Frac(-a, -b) ELSE Frac(a, b)

\* Unit conversion constants.
MPS_TO_MPH == Frac(223694, 100000)
METERS_TO_MILES == Frac(621371, 1000000000)
METERS_TO_FEET == Frac(328084, 100000)
SECONDS_PER_HOUR == Frac(1, 3600)
GradientThreshold == Frac(25, 10)

---------------------------------------------------------------------------
\* Cells, columns and DataFrames.

Missing == << >>
Val(v) == <<v>>

NoFrame == [none |-> TRUE, columns |-> {}, rows |-> << >>]
Frame(cols, rows) == [none |-> FALSE, columns |-> cols, rows |-> rows]

\* len(df)
FrameLen(df) == Len(df.rows)

\* df.empty: no rows or no columns.
FrameEmpty(df) == Len(df.rows) = 0 \/ df.columns = {}

\* df[c] as the sequence of its cells.
Column(df, c) == [i \in 1..Len(df.rows) |-> df.rows[i][c]]

\* series.dropna()
DropNa(cells) == SelectSeq(cells, LAMBDA x : x # Missing)

RECURSIVE SumCells(_)
SumCells(cells) ==
    IF cells = << >> THEN 0 ELSE Head(cells)[1] + SumCells(Tail(cells))

RECURSIVE MaxCells(_)
MaxCells(cells) ==
    IF Len(cells) = 1 THEN Head(cells)[1]
    ELSE LET m == MaxCells(Tail(cells))
         IN IF Head(cells)[1] > m THEN Head(cells)[1] ELSE m

\* series.mean(): skips missing cells, NaN when none is left.
Mean(cells) ==
    LET v == DropNa(cells)
    IN IF Len(v) = 0 THEN NaN ELSE Frac(SumCells(v), Len(v))

\* series.max(): skips missing cells, NaN when none is left.
Max(cells) ==
    LET v == DropNa(cells)
    IN IF Len(v) = 0 THEN NaN ELSE FromInt(MaxCells(v))

\* series.max() of the gradient column, whose cells hold fractions.
RECURSIVE MaxRat(_)
MaxRat(cells) ==
    IF Len(cells) = 0 THEN NaN
    ELSE IF Len(cells) = 1 THEN Head(cells)[1]
    ELSE LET m == MaxRat(Tail(cells))
         IN IF Greater(Head(cells)[1], m) THEN Head(cells)[1] ELSE m

\* df[lo:hi] with Python's half-open, 0-based bounds.
Slice(df, lo, hi) == Frame(df.columns, SubSeq(df.rows, lo + 1, hi))

\* df[mask]: the rows satisfying keep, in order.
Filter(df, keep(_)) == Frame(df.columns, SelectSeq(df.rows, keep))

---------------------------------------------------------------------------
\* Dicts (the summary record, "session_data").

NoneDict == [none |-> TRUE, d |-> [k \in {} |-> 0]]
Dict(f) == [none |-> FALSE, d |-> f]
Has(sd, k) == k \in DOMAIN sd.d
Get(sd, k, default) == IF Has(sd, k) THEN FromInt(sd.d[k]) ELSE default

\* Python truthiness of the summary: None and {} are both falsy.
Truthy(sd) == ~sd.none /\ DOMAIN sd.d # {}

---------------------------------------------------------------------------
\* RideDataAgent.calculate_gradient_analysis

\* Outcomes of an analysis: a dict holding "error", a dict holding "message",
\* a dict of metrics, or an exception that leaves the method.
NoMetrics == [k \in {} |-> Zero]
NoZones == << >>
Outcome(kind, text, metrics, zones) ==
    [kind |-> kind, text |-> text, metrics |-> metrics, zones |-> zones]
ErrorOutcome(text) == Outcome("error", text, NoMetrics, NoZones)
MessageOutcome(text) == Outcome("message", text, NoMetrics, NoZones)
RaiseOutcome(text) == Outcome("raise", text, NoMetrics, NoZones)
MetricsOutcome(metrics) == Outcome("metrics", "", metrics, NoZones)
ZonesOutcome(zones) == Outcome("zones", "", NoMetrics, zones)

AltitudeCol(df) ==
    IF "enhanced_altitude" \in df.columns THEN "enhanced_altitude"
    ELSE IF "altitude" \in df.columns THEN "altitude"
    ELSE "none"

\* A plausible slip: the plain altitude preferred to the enhanced one.
GradientAt_plain_altitude(df, altitude_col, i) ==
    IF i = 1 THEN Zero
    ELSE LET col == IF "altitude" \in df.columns THEN "altitude"
                    ELSE altitude_col
             a1 == df.rows[i][col]
             a0 == df.rows[i - 1][col]
             d1 == df.rows[i]["distance"]
             d0 == df.rows[i - 1]["distance"]
         IN IF Missing \in {a1, a0, d1, d0} THEN Zero
            ELSE IF d1[1] - d0[1] = 0 THEN Zero
            ELSE Quot((a1[1] - a0[1]) * 100, d1[1] - d0[1])

\* gradient[i] of lines 38-42: diff() is NaN on the first row and wherever a
\* cell is missing, the ratio is masked where the distance delta is 0, and
\* every non-finite value becomes 0.
GradientAt(df, altitude_col, i) ==
    IF i = 1 THEN Zero
    ELSE LET a1 == df.rows[i][altitude_col]
             a0 == df.rows[i - 1][altitude_col]
             d1 == df.rows[i]["distance"]
             d0 == df.rows[i - 1]["distance"]
         IN IF Missing \in {a1, a0, d1, d0} THEN Zero
            ELSE IF d1[1] - d0[1] = 0 THEN Zero
            ELSE Quot((a1[1] - a0[1]) * 100, d1[1] - d0[1])

\* A plausible slip: the first row, whose diff() is undefined, dropped.
SetGradient_drops_first_row(df, altitude_col) ==
    Frame(df.columns \cup {"gradient"},
          [i \in 1..(Len(df.rows) - 1) |->
              [c \in df.columns \cup {"gradient"} |->
                  IF c = "gradient"
                  THEN Val(GradientAt(df, altitude_col, i + 1))
                  ELSE df.rows[i + 1][c]]])

\* self.ride_data['gradient'] = gradient
SetGradient(df, altitude_col) ==
    Frame(df.columns \cup {"gradient"},
          [i \in 1..Len(df.rows) |->
              [c \in df.columns \cup {"gradient"} |->
                  IF c = "gradient" THEN Val(GradientAt(df, altitude_col, i))
                  ELSE df.rows[i][c]]])

\* A plausible variant: the column is computed once and then reused.
ComputeGradient_memoized(df, altitude_col) ==
    IF "gradient" \in df.columns THEN df
    ELSE IF "distance" \in df.columns THEN SetGradient(df, altitude_col)
    ELSE df

\* Lines 36-43: the gradient column is written whenever the table has a
\* distance column, on every call.
ComputeGradient(df, altitude_col) ==
    IF "distance" \in df.columns THEN SetGradient(df, altitude_col) ELSE df

\* A plausible slip: the threshold itself counted as steep.
IsSteep_inclusive(row) == GreaterEq(row["gradient"][1], GradientThreshold)

\* gradient > 2.5
IsSteep(row) == Greater(row["gradient"][1], GradientThreshold)

SpeedCol(df) ==
    IF "enhanced_speed" \in df.columns THEN "enhanced_speed" ELSE "speed"

ClimbMetrics(steep_climbs) ==
    LET speed_col == SpeedCol(steep_climbs)
        has(c) == c \in steep_climbs.columns
    IN [k \in {"avg_speed_on_climbs", "avg_heart_rate_on_climbs",
               "avg_power_on_climbs", "steepest_gradient",
               "total_climb_distance", "climb_segments"} |->
          CASE k = "avg_speed_on_climbs" ->
                 IF has(speed_col)
                 THEN Times(Mean(Column(steep_climbs, speed_col)), MPS_TO_MPH)
                 ELSE Zero
            [] k = "avg_heart_rate_on_climbs" ->
                 IF has("heart_rate")
                 THEN Mean(Column(steep_climbs, "heart_rate")) ELSE Zero
            [] k = "avg_power_on_climbs" ->
                 IF has("power")
                 THEN Mean(Column(steep_climbs, "power")) ELSE Zero
            [] k = "steepest_gradient" ->
                 MaxRat(Column(steep_climbs, "gradient"))
            [] k = "total_climb_distance" ->
                 Frac(FrameLen(steep_climbs) * 621371, 100000000)
            [] k = "climb_segments" -> FromInt(FrameLen(steep_climbs))]

\* Returns the outcome and the table as the call leaves it.
calculate_gradient_analysis(ride_data) ==
    LET altitude_col == AltitudeCol(ride_data)
    IN IF altitude_col = "none"
       THEN [result |-> ErrorOutcome("No altitude data available"),
             ride_data |-> ride_data]
       ELSE LET df == ComputeGradient(ride_data, altitude_col)
            IN IF "gradient" \notin df.columns
               THEN [result |-> RaiseOutcome("KeyError: 'gradient'"),
                     ride_data |-> df]
               ELSE LET steep_climbs == Filter(df, IsSteep)
                    IN IF FrameLen(steep_climbs) = 0
                       THEN [result |-> MessageOutcome(
                                 "No climbs steeper than 2.5% found in this ride"),
                             ride_data |-> df]
                       ELSE [result |-> MetricsOutcome(ClimbMetrics(steep_climbs)),
                             ride_data |-> df]

---------------------------------------------------------------------------
\* RideDataAgent.analyze_power_zones

\* The values of a sequence of non-missing cells in ascending order.
RECURSIVE Insert(_, _)
Insert(x, sorted) ==
    IF sorted = << >> THEN <<x>>
    ELSE IF x <= Head(sorted) THEN <<x>> \o sorted
    ELSE <<Head(sorted)>> \o Insert(x, Tail(sorted))

RECURSIVE SortValues(_)
SortValues(cells) ==
    IF cells = << >> THEN << >>
    ELSE Insert(Head(cells)[1], SortValues(Tail(cells)))

\* power_data.quantile(0.9), linear interpolation at position 0.9 * (n - 1).
Quantile90(power_data) ==
    LET s == SortValues(power_data)
        n == Len(s)
        lo == (9 * (n - 1)) \div 10
        frac == (9 * (n - 1)) % 10
        hi == IF lo + 1 < n THEN lo + 1 ELSE lo
    IN Frac(10 * s[lo + 1] + frac * (s[hi + 1] - s[lo + 1]), 10)

ZoneNames ==
    <<"Zone 1 (Recovery)", "Zone 2 (Endurance)", "Zone 3 (Tempo)",
      "Zone 4 (Threshold)", "Zone 5 (VO2 Max)", "Zone 6 (Neuromuscular)">>

\* zones[zone_name] = (min_power, max_power)
ZoneBounds(ftp) ==
    <<  <<Zero, Times(ftp, Frac(55, 100))>>,
        <<Times(ftp, Frac(55, 100)), Times(ftp, Frac(75, 100))>>,
        <<Times(ftp, Frac(75, 100)), Times(ftp, Frac(90, 100))>>,
        <<Times(ftp, Frac(90, 100)), Times(ftp, Frac(105, 100))>>,
        <<Times(ftp, Frac(105, 100)), Times(ftp, Frac(120, 100))>>,
        <<Times(ftp, Frac(120, 100)), Inf>>  >>

\* A plausible slip: a strict lower bound.
InZone_strict(cell, min_power, max_power) ==
    /\ Greater(FromInt(cell[1]), min_power)
    /\ Less(FromInt(cell[1]), max_power)

\* (power_data >= min_power) & (power_data < max_power)
InZone(cell, min_power, max_power) ==
    /\ GreaterEq(FromInt(cell[1]), min_power)
    /\ Less(FromInt(cell[1]), max_power)

ZoneData(power_data, bounds) ==
    SelectSeq(power_data, LAMBDA c : InZone(c, bounds[1], bounds[2]))

ZoneAnalysis(power_data) ==
    LET ftp == Quantile90(power_data)
        zones == ZoneBounds(ftp)
    IN [z \in 1..Len(ZoneNames) |->
          LET zone_data == ZoneData(power_data, zones[z])
          IN [zone |-> ZoneNames[z],
              time_percentage |->
                  Frac(Len(zone_data) * 100, Len(power_data)),
              avg_power |->
                  IF Len(zone_data) > 0 THEN Mean(zone_data) ELSE Zero]]

analyze_power_zones(ride_data) ==
    IF ride_data.none \/ "power" \notin ride_data.columns
    THEN ErrorOutcome("No power data available")
    ELSE LET power_data == DropNa(Column(ride_data, "power"))
         IN IF Len(power_data) = 0
            THEN ErrorOutcome("No valid power data")
            ELSE ZonesOutcome(ZoneAnalysis(power_data))

---------------------------------------------------------------------------
\* RideDataAgent.analyze_ride_segments

SegmentTypes == {"first_half", "second_half", "first_third", "last_third"}

\* A plausible slip: 2 * (total_points // 3) for the start of the last third.
SegmentRange_doubled_third(segment_type, total_points) ==
    CASE segment_type = "first_half" -> <<0, total_points \div 2>>
      [] segment_type = "second_half" -> <<total_points \div 2, total_points>>
      [] segment_type = "first_third" -> <<0, total_points \div 3>>
      [] segment_type = "last_third" ->
             <<2 * (total_points \div 3), total_points>>

\* The half-open, 0-based row range of each segment type.
SegmentRange(segment_type, total_points) ==
    CASE segment_type = "first_half" -> <<0, total_points \div 2>>
      [] segment_type = "second_half" -> <<total_points \div 2, total_points>>
      [] segment_type = "first_third" -> <<0, total_points \div 3>>
      [] segment_type = "last_third" ->
             <<(2 * total_points) \div 3, total_points>>

SegmentData(ride_data, segment_type) ==
    LET r == SegmentRange(segment_type, FrameLen(ride_data))
    IN Slice(ride_data, r[1], r[2])

SegmentMetrics(segment_data) ==
    LET speed_col == SpeedCol(segment_data)
        has(c) == c \in segment_data.columns
    IN [k \in {"avg_speed", "max_speed", "avg_heart_rate", "max_heart_rate",
               "avg_power", "max_power", "data_points"} |->
          CASE k = "avg_speed" ->
                 IF has(speed_col)
                 THEN Times(Mean(Column(segment_data, speed_col)), MPS_TO_MPH)
                 ELSE Zero
            [] k = "max_speed" ->
                 IF has(speed_col)
                 THEN Times(Max(Column(segment_data, speed_col)), MPS_TO_MPH)
                 ELSE Zero
            [] k = "avg_heart_rate" ->
                 IF has("heart_rate")
                 THEN Mean(Column(segment_data, "heart_rate")) ELSE Zero
            [] k = "max_heart_rate" ->
                 IF has("heart_rate")
                 THEN Max(Column(segment_data, "heart_rate")) ELSE Zero
            [] k = "avg_power" ->
                 IF has("power")
                 THEN Mean(Column(segment_data, "power")) ELSE Zero
            [] k = "max_power" ->
                 IF has("power")
                 THEN Max(Column(segment_data, "power")) ELSE Zero
            [] k = "data_points" -> FromInt(FrameLen(segment_data))]

analyze_ride_segments(ride_data, segment_type) ==
    IF ride_data.none THEN ErrorOutcome("No ride data available")
    ELSE IF segment_type \notin SegmentTypes
    THEN ErrorOutcome("Unknown segment type")
    ELSE MetricsOutcome(SegmentMetrics(SegmentData(ride_data, segment_type)))

---------------------------------------------------------------------------
\* RideDataAgent.process_natural_query

\* The words a query is made of; str.lower() on each of them.
QueryWords ==
    {"second", "last", "final", "first", "half", "third", "climb", "power",
     "zone", "average", "speed", "heart", "rate", "joke", "Climb", "HALF"}

LowerWord(w) ==
    CASE w = "Climb" -> "climb"
      [] w = "HALF" -> "half"
      [] OTHER -> w

\* query.lower()
Lower(query) == [i \in 1..Len(query) |-> LowerWord(query[i])]

\* phrase in text
Contains(text, phrase) ==
    \E i \in 1..(Len(text) - Len(phrase) + 1) :
        SubSeq(text, i, i + Len(phrase) - 1) = phrase

\* A plausible slip: the climb test moved ahead of the half tests.
Intent_climb_first(query_lower) ==
    IF Contains(query_lower, <<"climb">>) THEN "climb"
    ELSE IF \/ Contains(query_lower, <<"second", "half">>)
            \/ Contains(query_lower, <<"last", "half">>) THEN "second_half"
    ELSE IF Contains(query_lower, <<"first", "half">>) THEN "first_half"
    ELSE IF /\ Contains(query_lower, <<"power">>)
            /\ Contains(query_lower, <<"zone">>) THEN "power_zone"
    ELSE IF /\ Contains(query_lower, <<"average">>)
            /\ Contains(query_lower, <<"speed">>) THEN "average_speed"
    ELSE IF Contains(query_lower, <<"heart", "rate">>) THEN "heart_rate"
    ELSE IF \/ Contains(query_lower, <<"last", "third">>)
            \/ Contains(query_lower, <<"final", "third">>) THEN "last_third"
    ELSE IF Contains(query_lower, <<"first", "third">>) THEN "first_third"
    ELSE "help"

\* The if/elif chain of lines 147-235: the first test that succeeds names
\* the branch taken.
Intent(query_lower) ==
    IF \/ Contains(query_lower, <<"second", "half">>)
       \/ Contains(query_lower, <<"last", "half">>) THEN "second_half"
    ELSE IF Contains(query_lower, <<"first", "half">>) THEN "first_half"
    ELSE IF Contains(query_lower, <<"climb">>) THEN "climb"
    ELSE IF /\ Contains(query_lower, <<"power">>)
            /\ Contains(query_lower, <<"zone">>) THEN "power_zone"
    ELSE IF /\ Contains(query_lower, <<"average">>)
            /\ Contains(query_lower, <<"speed">>) THEN "average_speed"
    ELSE IF Contains(query_lower, <<"heart", "rate">>) THEN "heart_rate"
    ELSE IF \/ Contains(query_lower, <<"last", "third">>)
            \/ Contains(query_lower, <<"final", "third">>) THEN "last_third"
    ELSE IF Contains(query_lower, <<"first", "third">>) THEN "first_third"
    ELSE "help"

\* What the caller gets: a returned text (the template it was rendered from,
\* the verbatim message, the values put into the template) or an exception.
Response(kind, template, text, values, zones, verdict) ==
    [kind |-> kind, template |-> template, text |-> text, values |-> values,
     zones |-> zones, verdict |-> verdict]
NoResponse == Response("none", "", "", NoMetrics, NoZones, "")
Template(template, values) ==
    Response("return", template, "", values, NoZones, "")
Verbatim(text) == Response("return", "Message", text, NoMetrics, NoZones, "")
Raised(text) == Response("raise", "", text, NoMetrics, NoZones, "")

\* Lines 135-142.
NoDataMessage == Template("Capabilities", NoMetrics)

\* The values the segment templates print.
Pick(metrics, keys) == [k \in keys |-> metrics[k]]

\* Lines 147-158.
SecondHalfAnswer(ride_data, session_data) ==
    LET segment_data == analyze_ride_segments(ride_data, "second_half")
    IN IF segment_data.kind = "error" THEN Verbatim(segment_data.text)
       ELSE IF session_data.none
       THEN Raised("AttributeError: 'NoneType' object has no attribute 'get'")
       ELSE LET overall ==
                    Times(Get(session_data, "enhanced_avg_speed", Zero),
                          MPS_TO_MPH)
                m == segment_data.metrics
            IN Response("return", "SecondHalf", "",
                   [k \in {"avg_speed", "max_speed", "avg_heart_rate",
                           "avg_power", "overall_avg_speed"} |->
                       IF k = "overall_avg_speed" THEN overall ELSE m[k]],
                   NoZones,
                   IF Greater(m["avg_speed"], overall)
                   THEN "sped up" ELSE "slowed down")

\* Lines 160-169.
FirstHalfAnswer(ride_data) ==
    LET segment_data == analyze_ride_segments(ride_data, "first_half")
    IN IF segment_data.kind = "error" THEN Verbatim(segment_data.text)
       ELSE Template("FirstHalf",
                Pick(segment_data.metrics,
                     {"avg_speed", "max_speed", "avg_heart_rate", "avg_power"}))

\* A plausible slip: only the "error" key is tested before the template.
ClimbAnswer_message_templated(climb_data) ==
    IF climb_data.kind = "raise" THEN Raised(climb_data.text)
    ELSE IF climb_data.kind = "error" THEN Verbatim(climb_data.text)
    ELSE Template("Climb", climb_data.metrics)

\* Lines 172-188.
ClimbAnswer(climb_data) ==
    IF climb_data.kind = "raise" THEN Raised(climb_data.text)
    ELSE IF climb_data.kind \in {"error", "message"}
    THEN Verbatim(climb_data.text)
    ELSE Template("Climb",
             Pick(climb_data.metrics,
                  {"avg_speed_on_climbs", "avg_heart_rate_on_climbs",
                   "avg_power_on_climbs", "steepest_gradient",
                   "climb_segments"}))

\* Lines 190-199.
PowerZoneAnswer(ride_data) ==
    LET power_zones == analyze_power_zones(ride_data)
    IN IF power_zones.kind = "error" THEN Verbatim(power_zones.text)
       ELSE Response("return", "PowerZones", "", NoMetrics,
                [z \in 1..Len(power_zones.zones) |->
                    [zone |-> power_zones.zones[z].zone,
                     time_percentage |-> power_zones.zones[z].time_percentage]],
                "")

\* Lines 201-204.
AverageSpeedAnswer(session_data) ==
    LET avg_speed ==
            IF Truthy(session_data)
            THEN Times(Get(session_data, "enhanced_avg_speed",
                           Get(session_data, "avg_speed", Zero)), MPS_TO_MPH)
            ELSE Zero
        max_speed ==
            IF Truthy(session_data)
            THEN Times(Get(session_data, "enhanced_max_speed",
                           Get(session_data, "max_speed", Zero)), MPS_TO_MPH)
            ELSE Zero
    IN Template("AverageSpeed",
           [k \in {"avg_speed", "max_speed"} |->
               IF k = "avg_speed" THEN avg_speed ELSE max_speed])

\* Lines 206-209.
HeartRateAnswer(session_data) ==
    LET avg_hr == IF Truthy(session_data)
                  THEN Get(session_data, "avg_heart_rate", Zero) ELSE Zero
        max_hr == IF Truthy(session_data)
                  THEN Get(session_data, "max_heart_rate", Zero) ELSE Zero
    IN Template("HeartRate",
           [k \in {"avg_hr", "max_hr"} |-> IF k = "avg_hr" THEN avg_hr ELSE max_hr])

\* Lines 211-233.
ThirdAnswer(ride_data, segment_type, template) ==
    LET segment_data == analyze_ride_segments(ride_data, segment_type)
    IN IF segment_data.kind = "error" THEN Verbatim(segment_data.text)
       ELSE Template(template,
                Pick(segment_data.metrics,
                     {"avg_speed", "avg_heart_rate", "avg_power"}))

\* Lines 235-256.
HelpAnswer(ride_data, session_data) ==
    IF session_data.none
    THEN Raised("AttributeError: 'NoneType' object has no attribute 'get'")
    ELSE Template("Help",
             [k \in {"total_distance", "data_points"} |->
                 IF k = "total_distance"
                 THEN Times(Get(session_data, "total_distance", Zero),
                            METERS_TO_MILES)
                 ELSE FromInt(IF ~ride_data.none THEN FrameLen(ride_data) ELSE 0)])

\* Lines 144-256: the branch chosen by the query, its response and the table
\* as it leaves it.
Dispatch(ride_data, session_data, query) ==
    LET intent == Intent(Lower(query))
    IN IF intent = "climb"
       THEN LET climb == calculate_gradient_analysis(ride_data)
            IN [response |-> ClimbAnswer(climb.result),
                ride_data |-> climb.ride_data]
       ELSE [response |->
                CASE intent = "second_half" ->
                         SecondHalfAnswer(ride_data, session_data)
                  [] intent = "first_half" -> FirstHalfAnswer(ride_data)
                  [] intent = "power_zone" -> PowerZoneAnswer(ride_data)
                  [] intent = "average_speed" ->
                         AverageSpeedAnswer(session_data)
                  [] intent = "heart_rate" -> HeartRateAnswer(session_data)
                  [] intent = "last_third" ->
                         ThirdAnswer(ride_data, "last_third", "FinalThird")
                  [] intent = "first_third" ->
                         ThirdAnswer(ride_data, "first_third", "FirstThird")
                  [] intent = "help" -> HelpAnswer(ride_data, session_data),
             ride_data |-> ride_data]

\* A plausible slip: the missing-table guard of line 134 left out.
process_natural_query_unguarded(ride_data, session_data, query) ==
    Dispatch(ride_data, session_data, query)

\* The response and the table as the call leaves it.
process_natural_query(ride_data, session_data, query) ==
    IF ride_data.none
    THEN [response |-> NoDataMessage, ride_data |-> ride_data]
    ELSE Dispatch(ride_data, session_data, query)

---------------------------------------------------------------------------
\* extract_ride_metrics (src/app.py)

MetricFields ==
    {"total_distance", "total_time", "avg_speed", "max_speed",
     "avg_heart_rate", "max_heart_rate", "avg_power", "max_power",
     "total_ascent", "total_descent", "normalized_power",
     "training_stress_score"}

\* A plausible slip: the plain speed keys looked up before the enhanced ones.
MetricValue_plain_first(session_data, field) ==
    CASE field = "total_distance" ->
             Times(Get(session_data, "total_distance", Zero), METERS_TO_MILES)
      [] field = "total_time" ->
             IF Has(session_data, "total_timer_time")
             THEN Times(Get(session_data, "total_timer_time", Zero),
                        SECONDS_PER_HOUR)
             ELSE Zero
      [] field = "avg_speed" ->
             Times(Get(session_data, "avg_speed",
                       Get(session_data, "enhanced_avg_speed", Zero)), MPS_TO_MPH)
      [] field = "max_speed" ->
             Times(Get(session_data, "max_speed",
                       Get(session_data, "enhanced_max_speed", Zero)), MPS_TO_MPH)
      [] field = "max_power" ->
             Get(session_data, "max_power",
                 Get(session_data, "normalized_power", Zero))
      [] field = "total_ascent" ->
             Times(Get(session_data, "total_ascent", Zero), METERS_TO_FEET)
      [] field = "total_descent" ->
             Times(Get(session_data, "total_descent", Zero), METERS_TO_FEET)
      [] OTHER -> Get(session_data, field, Zero)

\* metrics[field] of lines 74-87.
MetricValue(session_data, field) ==
    CASE field = "total_distance" ->
             Times(Get(session_data, "total_distance", Zero), METERS_TO_MILES)
      [] field = "total_time" ->
             IF Has(session_data, "total_timer_time")
             THEN Times(Get(session_data, "total_timer_time", Zero),
                        SECONDS_PER_HOUR)
             ELSE Zero
      [] field = "avg_speed" ->
             Times(Get(session_data, "enhanced_avg_speed",
                       Get(session_data, "avg_speed", Zero)), MPS_TO_MPH)
      [] field = "max_speed" ->
             Times(Get(session_data, "enhanced_max_speed",
                       Get(session_data, "max_speed", Zero)), MPS_TO_MPH)
      [] field = "max_power" ->
             Get(session_data, "max_power",
                 Get(session_data, "normalized_power", Zero))
      [] field = "total_ascent" ->
             Times(Get(session_data, "total_ascent", Zero), METERS_TO_FEET)
      [] field = "total_descent" ->
             Times(Get(session_data, "total_descent", Zero), METERS_TO_FEET)
      [] OTHER -> Get(session_data, field, Zero)

\* A plausible slip: the guard of lines 65-66 left out.
extract_ride_metrics_unguarded(df, session_data) ==
    [f \in MetricFields |-> MetricValue(session_data, f)]

\* The dict returned: {} for a missing or empty table.
extract_ride_metrics(df, session_data) ==
    IF df.none \/ FrameEmpty(df) THEN NoMetrics
    ELSE [f \in MetricFields |-> MetricValue(session_data, f)]

---------------------------------------------------------------------------
\* The inputs: what the decoder can hand over.

\* One recorded instant: the distance covered since the previous one and the
\* sensor readings (a missing reading is << >>).
Sample(dd, altitude, speed, heart_rate, power) ==
    [dd |-> dd, altitude |-> altitude, speed |-> speed,
     heart_rate |-> heart_rate, power |-> power]

Samples ==
    {Sample(0, Val(100), Val(0), Missing, Missing),
     Sample(10, Val(101), Val(5), Val(120), Val(100)),
     Sample(40, Val(101), Val(8), Val(150), Val(240)),
     Sample(10, Val(102), Val(3), Val(170), Val(300)),
     Sample(40, Missing, Val(6), Val(140), Val(0))}

\* The two samples the lifecycle specifications build their tables from.
FewSamples ==
    {Sample(10, Val(100), Val(5), Val(120), Val(100)),
     Sample(10, Val(102), Val(8), Val(150), Val(300))}

SeqsUpTo(S, n) == UNION {[1..k -> S] : k \in 0..n}

RECURSIVE Travelled(_, _)
Travelled(samples, i) ==
    IF i = 0 THEN 0 ELSE samples[i].dd + Travelled(samples, i - 1)

\* The enhanced variant of a reading differs from the plain one, and so do
\* the differences between two enhanced readings.
Enhanced(cell) == IF cell = Missing THEN Missing ELSE Val(2 * cell[1] + 1)

\* pd.DataFrame(records) for the given columns: distance is cumulative.
BuildFrame(cols, samples) ==
    Frame(cols,
          [i \in 1..Len(samples) |->
              [c \in cols |->
                  CASE c = "distance" -> Val(Travelled(samples, i))
                    [] c = "altitude" -> samples[i].altitude
                    [] c = "enhanced_altitude" -> Enhanced(samples[i].altitude)
                    [] c = "speed" -> samples[i].speed
                    [] c = "enhanced_speed" -> Enhanced(samples[i].speed)
                    [] c = "heart_rate" -> samples[i].heart_rate
                    [] c = "power" -> samples[i].power
                    [] c = "timestamp" -> Val(i)
                    [] c = "temperature" -> Val(22)]])

Frames(colsets, samples) ==
    {BuildFrame(cols, seq) : cols \in colsets, seq \in SeqsUpTo(samples, MaxRows)}

\* Column sets: a full recording, one with the enhanced variants, one with
\* altitude but no distance, one with neither altitude nor power.
FullColumns == {"distance", "altitude", "speed", "heart_rate", "power"}
EnhancedColumns ==
    {"distance", "altitude", "enhanced_altitude", "speed", "enhanced_speed",
     "heart_rate", "power"}
NoDistanceColumns == {"altitude", "speed", "power"}
BareColumns == {"distance", "heart_rate"}
ColumnSets == {FullColumns, EnhancedColumns, NoDistanceColumns, BareColumns, {}}

SummaryKeys ==
    {"total_distance", "total_timer_time", "avg_speed", "enhanced_avg_speed",
     "max_speed", "enhanced_max_speed", "avg_heart_rate", "max_heart_rate",
     "avg_power", "max_power", "normalized_power", "total_ascent",
     "total_descent", "training_stress_score"}

\* The value a summary holds under each key it has (all different).
SummaryValue(k) ==
    CASE k = "total_distance" -> 2000
      [] k = "total_timer_time" -> 7200
      [] k = "avg_speed" -> 5
      [] k = "enhanced_avg_speed" -> 6
      [] k = "max_speed" -> 9
      [] k = "enhanced_max_speed" -> 10
      [] k = "avg_heart_rate" -> 140
      [] k = "max_heart_rate" -> 180
      [] k = "avg_power" -> 210
      [] k = "max_power" -> 650
      [] k = "normalized_power" -> 230
      [] k = "total_ascent" -> 300
      [] k = "total_descent" -> 290
      [] k = "training_stress_score" -> 55

Summary(keys) == Dict([k \in keys |-> SummaryValue(k)])
Summaries == {Summary(keys) : keys \in SUBSET SummaryKeys}

\* The keys generate_demo_ride_data fills in (demo_data.py, lines 64-75).
DemoKeys ==
    {"total_distance", "total_timer_time", "avg_speed", "max_speed",
     "avg_heart_rate", "max_heart_rate", "avg_power", "normalized_power",
     "total_ascent", "total_descent"}

\* Summaries of the lifecycle specifications: none, empty, demo-like, enhanced.
FewSummaries ==
    {NoneDict, Summary({}), Summary(DemoKeys),
     Summary({"total_distance", "enhanced_avg_speed", "enhanced_max_speed",
              "avg_speed", "max_power"})}

Queries == SeqsUpTo(QueryWords, MaxQueryLen)

\* The questions of the lifecycle specifications: one per intent, two that
\* match several intents, one that matches none.
FewQueries ==
    {<<"second", "half">>, <<"first", "half">>, <<"Climb">>,
     <<"power", "zone">>, <<"average", "speed">>, <<"heart", "rate">>,
     <<"final", "third">>, <<"first", "third">>, <<"joke">>,
     <<"climb", "first", "half">>, <<"heart", "rate", "zone">>}

---------------------------------------------------------------------------
\* State.

VARIABLES
    ride_data,      \* ride_analyzer.ride_data
    session_data,   \* ride_analyzer.session_data
    session,        \* per browser session: session.get('ride_loaded')
    uploads,        \* the names of the files in UPLOAD_FOLDER
    op,             \* the operation of the last step
    who,            \* the browser session of the last request, "" if none
    query,          \* the question of the last step, << >> if it asked none
    segment_type,   \* the segment type of the last step, "" if it took none
    response,       \* what the last step's question was answered
    result,         \* what the last step's direct analysis call returned
    metrics,        \* what the last step's extract_ride_metrics call returned
    page,           \* what the last request's handler rendered
    loaded,         \* history: the arguments of the last load
    replaced,       \* history: the last load replaced a different activity
    loadedBy,       \* history: per browser session, the arguments of its last load
    loader,         \* a load_ride_data call in progress on another thread
    asker,          \* a process_natural_query call in progress on another thread
    llm             \* a query_llm call: where it stands and what it has sent

vars == <<ride_data, session_data, session, uploads, op, who, query,
          segment_type, response, result, metrics, page, loaded, replaced,
          loadedBy, loader, asker, llm>>

Sessions == {"s1", "s2"}

NoOutcome == Outcome("none", "", NoMetrics, NoZones)
NoPage == [view |-> "none", flash |-> ""]
Activity(df, sd) == [ride_data |-> df, session_data |-> sd]
NoActivity == Activity(NoFrame, NoneDict)

\* No call in progress: where load_ride_data and process_natural_query stand
\* before they are entered and after they have returned.
IdleLoader == [pc |-> "idle", activity |-> NoActivity]
IdleAsker ==
    [pc |-> "idle", q |-> << >>, ride_data |-> NoFrame,
     session_data |-> NoneDict]

\* No query_llm call has been made.
IdleLLM ==
    [pc |-> "idle", token |-> "", max_retries |-> 0, attempt |-> 0,
     log |-> << >>, returned |-> "", generated_text |-> ""]

\* What a step of a call in progress leaves behind.
Hands(o, w, q, st, resp, res, m, pg) ==
    /\ op' = o
    /\ who' = w
    /\ query' = q
    /\ segment_type' = st
    /\ response' = resp
    /\ result' = res
    /\ metrics' = m
    /\ page' = pg

\* What a step hands back when the operation runs from entry to return with
\* no other call in between; every operation sets all of it.
Returns(o, w, q, st, resp, res, m, pg) ==
    /\ Hands(o, w, q, st, resp, res, m, pg)
    /\ UNCHANGED <<loader, asker, llm>>

\* The state in which the analyzer holds the given activity, no request has
\* been served yet and q is the question about to be asked.
Holding(df, sd, q) ==
    /\ ride_data = df
    /\ session_data = sd
    /\ session = [s \in Sessions |-> FALSE]
    /\ uploads = {}
    /\ op = "init"
    /\ who = ""
    /\ query = q
    /\ segment_type = ""
    /\ response = NoResponse
    /\ result = NoOutcome
    /\ metrics = NoMetrics
    /\ page = NoPage
    /\ loaded = Activity(df, sd)
    /\ replaced = FALSE
    /\ loadedBy = [s \in Sessions |-> NoActivity]
    /\ loader = IdleLoader
    /\ asker = IdleAsker
    /\ llm = IdleLLM

\* RideDataAgent.__init__ (the module-level ride_analyzer) in a fresh process.
Init == Holding(NoFrame, NoneDict, << >>)

\* A plausible slip: the summary of the activity loaded before is kept.
load_ride_data_keeps_summary(df, sd) ==
    Activity(df, IF session_data.none THEN sd ELSE session_data)

\* RideDataAgent.load_ride_data: both fields are replaced together.
load_ride_data(df, sd) == Activity(df, sd)

\* The analyzer's fields and the history after load_ride_data(df, sd) called
\* on behalf of browser session w ("" for a direct call).
LoadInto(df, sd, w) ==
    /\ ride_data' = load_ride_data(df, sd).ride_data
    /\ session_data' = load_ride_data(df, sd).session_data
    /\ loaded' = Activity(df, sd)
    /\ replaced' = (~ride_data.none /\ df # loaded.ride_data
                                    /\ sd # loaded.session_data)
    /\ loadedBy' = IF w = "" THEN loadedBy
                   ELSE [loadedBy EXCEPT ![w] = Activity(df, sd)]

---------------------------------------------------------------------------
\* The engine on its own: calls on one RideDataAgent.

\* ride_analyzer.load_ride_data(df, sd)
Load(df, sd) ==
    /\ LoadInto(df, sd, "")
    /\ Returns("load", "", << >>, "", NoResponse, NoOutcome, NoMetrics, NoPage)
    /\ UNCHANGED <<session, uploads>>

\* ride_analyzer.process_natural_query(q)
Answer(q) ==
    LET r == process_natural_query(ride_data, session_data, q)
    IN /\ ride_data' = r.ride_data
       /\ Returns("answer", "", q, "", r.response, NoOutcome, NoMetrics, NoPage)
       /\ UNCHANGED <<session_data, session, uploads, loaded, replaced, loadedBy>>

\* ride_analyzer.analyze_ride_segments(t)
CallSegments(t) ==
    /\ Returns("segments", "", << >>, t, NoResponse,
               analyze_ride_segments(ride_data, t), NoMetrics, NoPage)
    /\ UNCHANGED <<ride_data, session_data, session, uploads, loaded, replaced,
                   loadedBy>>

\* ride_analyzer.analyze_power_zones()
CallZones ==
    /\ Returns("zones", "", << >>, "", NoResponse,
               analyze_power_zones(ride_data), NoMetrics, NoPage)
    /\ UNCHANGED <<ride_data, session_data, session, uploads, loaded, replaced,
                   loadedBy>>

\* ride_analyzer.calculate_gradient_analysis()
CallGradient ==
    LET r == calculate_gradient_analysis(ride_data)
    IN /\ ~ride_data.none
       /\ ride_data' = r.ride_data
       /\ Returns("gradient", "", << >>, "", NoResponse, r.result, NoMetrics,
                  NoPage)
       /\ UNCHANGED <<session_data, session, uploads, loaded, replaced, loadedBy>>

\* extract_ride_metrics(ride_data, session_data) on the values held.
CallExtract ==
    /\ Returns("extract", "", << >>, "", NoResponse, NoOutcome,
               extract_ride_metrics(ride_data, session_data), NoPage)
    /\ UNCHANGED <<ride_data, session_data, session, uploads, loaded, replaced,
                   loadedBy>>

LoadAny ==
    \E df \in Frames({FullColumns, NoDistanceColumns, BareColumns}, FewSamples),
       sd \in FewSummaries : Load(df, sd)

AnswerAny == \E q \in FewQueries : Answer(q)

Next == LoadAny \/ AnswerAny

\* One engine instance over its lifetime: loads and questions in any order.
Spec == Init /\ [][Next]_vars

---------------------------------------------------------------------------
\* The router as a function: one question put to a loaded engine.

RouterFrames ==
    {BuildFrame(cols, <<Sample(10, Val(100), Val(5), Val(120), Val(100)),
                        Sample(10, Val(102), Val(8), Val(150), Val(300))>>) :
        cols \in {FullColumns, NoDistanceColumns, BareColumns}}

\* The variable query holds the question about to be asked.
InitRouter ==
    \E df \in RouterFrames, q \in Queries : Holding(df, Summary(DemoKeys), q)

AnswerAsked == op = "init" /\ Answer(query)

SpecRouter == InitRouter /\ [][AnswerAsked]_vars

\* One question put to an engine holding any table the decoder can hand
\* over, with an empty or a demo-like summary.
InitAnswers ==
    \E df \in Frames(ColumnSets, Samples),
       sd \in {Summary({}), Summary(DemoKeys)},
       q \in FewQueries : Holding(df, sd, q)

SpecAnswers == InitAnswers /\ [][AnswerAsked]_vars

---------------------------------------------------------------------------
\* The analyses as functions: direct calls on a loaded engine.

InitAnalysis ==
    \E df \in Frames(ColumnSets, Samples) : Holding(df, Summary({}), << >>)

CallSegmentsAny ==
    \E t \in SegmentTypes \cup {"middle_third"} : CallSegments(t)

NextAnalysis == CallSegmentsAny \/ CallZones \/ CallGradient

SpecAnalysis == InitAnalysis /\ [][NextAnalysis]_vars

---------------------------------------------------------------------------
\* The metrics extractor as a function of a table and a summary.

OneSample == <<Sample(10, Val(100), Val(5), Val(120), Val(100))>>

\* No table, a table without rows, a table without columns, a table with a row.
MetricFrames ==
    {NoFrame, BuildFrame(FullColumns, << >>), BuildFrame({}, OneSample),
     BuildFrame(FullColumns, OneSample)}

InitMetrics ==
    \E df \in MetricFrames, sd \in Summaries : Holding(df, sd, << >>)

SpecMetrics == InitMetrics /\ [][CallExtract]_vars

---------------------------------------------------------------------------
\* Climb questions with the caller changing the table it handed over between
\* them (the DataFrame is shared by reference with whoever loaded it).

SentinelFrames ==
    {BuildFrame(cols, seq) :
        cols \in {FullColumns, EnhancedColumns, NoDistanceColumns},
        seq \in [1..2 -> FewSamples]}

InitSentinel ==
    \E df \in SentinelFrames : Holding(df, Summary(DemoKeys), << >>)

Climb == Answer(<<"climb">>)

\* df.loc[i, c] = v by the caller, on the altitude column in use or on distance.
Sentinel ==
    \E i \in 1..FrameLen(ride_data),
       c \in {AltitudeCol(ride_data), "distance"} \cap ride_data.columns :
        /\ ride_data' =
               [ride_data EXCEPT !.rows[i][c] =
                   IF c = "distance" THEN Val(5) ELSE Val(110)]
        /\ Returns("sentinel", "", << >>, "", NoResponse, NoOutcome, NoMetrics,
                   NoPage)
        /\ UNCHANGED <<session_data, session, uploads, loaded, replaced,
                       loadedBy>>

NextSentinel == Climb \/ Sentinel

SpecSentinel == InitSentinel /\ [][NextSentinel]_vars

---------------------------------------------------------------------------
\* The request handlers of src/app.py on the shared ride_analyzer.

\* generate_demo_ride_data(): the same table and summary on every call
\* (np.random.seed(42)), here three of its rows.
DemoColumns ==
    {"timestamp", "distance", "speed", "altitude", "heart_rate", "power",
     "temperature"}
DemoActivity ==
    Activity(BuildFrame(DemoColumns,
                 <<Sample(10, Val(100), Val(5), Val(120), Val(100)),
                   Sample(10, Val(102), Val(8), Val(150), Val(300)),
                   Sample(40, Val(101), Val(8), Val(150), Val(240))>>),
             Summary(DemoKeys))

\* What an uploaded file can hold: a FIT recording of one of two rides or of
\* no record at all, bytes that are neither FIT nor zip, a zip archive with a
\* FIT member, with a member named *.fit that is not FIT, or with no *.fit
\* member.
Contents ==
    {"fitA", "fitB", "fitEmpty", "garbage", "zipA", "zipGarbage", "zipEmpty"}

IsZip(content) == content \in {"zipA", "zipGarbage", "zipEmpty"}

\* The first *.fit member zip_ref.extractall leaves in temp_dir, "" if none.
FitMember(content) ==
    CASE content = "zipA" -> "fitA"
      [] content = "zipGarbage" -> "garbage"
      [] OTHER -> ""

RideA ==
    Activity(BuildFrame(EnhancedColumns,
                 <<Sample(10, Val(100), Val(5), Val(120), Val(100)),
                   Sample(40, Val(101), Val(3), Val(170), Val(240))>>),
             Summary({"total_distance", "enhanced_avg_speed",
                      "enhanced_max_speed", "avg_heart_rate"}))
RideB ==
    Activity(BuildFrame(NoDistanceColumns,
                 <<Sample(10, Val(102), Val(8), Val(150), Val(300))>>),
             Summary({}))
RideEmpty == Activity(BuildFrame({}, << >>), Summary({}))

\* parse_fit_file: (df, session_data), or (None, str(e)) when FitFile raises.
ParseFailed == Activity(NoFrame, NoneDict)
parse_fit_file(content) ==
    CASE content = "fitA" -> RideA
      [] content = "fitB" -> RideB
      [] content = "fitEmpty" -> RideEmpty
      [] OTHER -> ParseFailed

\* File names as their dot-separated parts; << >> is the empty name.
FileNames == {<< >>, <<"ride", "fit">>, <<"RIDE", "ZIP">>, <<"notes", "txt">>, <<"ride">>}

LowerExt(e) ==
    CASE e = "ZIP" -> "zip"
      [] e = "FIT" -> "fit"
      [] OTHER -> e

ALLOWED_EXTENSIONS == {"fit", "zip"}

\* '.' in filename and filename.rsplit('.', 1)[1].lower() in ALLOWED_EXTENSIONS
allowed_file(filename) ==
    /\ Len(filename) >= 2
    /\ LowerExt(filename[Len(filename)]) \in ALLOWED_EXTENSIONS

\* filename.lower().endswith('.zip')
EndsWithZip(filename) ==
    Len(filename) >= 2 /\ LowerExt(filename[Len(filename)]) = "zip"

\* request.files of an upload request: no 'file' part, or a file (every
\* content under the names the handler reads, one under the names it rejects).
UploadRequests ==
    {[part |-> FALSE, filename |-> << >>, content |-> ""]}
    \cup {[part |-> TRUE, filename |-> f, content |-> c] :
             f \in {n \in FileNames : allowed_file(n)}, c \in Contents}
    \cup {[part |-> TRUE, filename |-> f, content |-> "garbage"] :
             f \in {n \in FileNames : ~allowed_file(n)}}

Redirect(flash) == [view |-> "redirect", flash |-> flash]
Results == [view |-> "results", flash |-> ""]
Json == [view |-> "json", flash |-> ""]
ServerError(e) == [view |-> "error", flash |-> e]

\* A plausible variant: a failed upload withdraws the session's flag.
Rejected_clears_flag(s, pg) ==
    /\ Returns("upload", s, << >>, "", NoResponse, NoOutcome, NoMetrics, pg)
    /\ session' = [session EXCEPT ![s] = FALSE]
    /\ UNCHANGED <<ride_data, session_data, loaded, replaced, loadedBy>>

\* The handler returns without having touched the analyzer or the session.
Rejected(s, pg) ==
    /\ Returns("upload", s, << >>, "", NoResponse, NoOutcome, NoMetrics, pg)
    /\ UNCHANGED <<ride_data, session_data, session, loaded, replaced, loadedBy>>

\* The tail of demo and upload_file: load, flag the session, render.
LoadAndRender(o, s, a) ==
    /\ LoadInto(a.ride_data, a.session_data, s)
    /\ session' = [session EXCEPT ![s] = TRUE]
    /\ Returns(o, s, << >>, "", NoResponse, NoOutcome,
               extract_ride_metrics(a.ride_data, a.session_data), Results)

\* GET /demo
Demo(s) ==
    /\ LoadAndRender("demo", s, DemoActivity)
    /\ UNCHANGED uploads

\* POST /upload
Upload(s, req) ==
    IF ~req.part \/ req.filename = << >>
    THEN Rejected(s, Redirect("No file selected")) /\ UNCHANGED uploads
    ELSE IF ~allowed_file(req.filename)
    THEN /\ Rejected(s, Redirect("Invalid file type. Please upload .fit or .zip files only."))
         /\ UNCHANGED uploads
    ELSE IF EndsWithZip(req.filename) /\ ~IsZip(req.content)
    THEN \* zipfile.ZipFile raises BadZipFile, which nothing catches
         /\ Rejected(s, ServerError("BadZipFile"))
         /\ uploads' = uploads \cup {req.filename}
    ELSE IF EndsWithZip(req.filename) /\ FitMember(req.content) = ""
    THEN /\ Rejected(s, Redirect("No .fit file found in zip archive"))
         /\ uploads' = uploads \cup {req.filename}
    ELSE LET parsed == parse_fit_file(IF EndsWithZip(req.filename)
                                      THEN FitMember(req.content)
                                      ELSE req.content)
         IN /\ uploads' = uploads \ {req.filename}
            /\ IF parsed.ride_data.none
               THEN Rejected(s, Redirect("Error parsing file"))
               ELSE LoadAndRender("upload", s, parsed)

\* A plausible slip: the try/except of lines 221-228 left out.
QueryData_uncaught(s, q) ==
    IF ~session[s]
    THEN /\ Returns("query", s, q, "", Verbatim("Please upload a ride file first!"),
                    NoOutcome, NoMetrics, Json)
         /\ UNCHANGED <<ride_data, session_data, session, uploads, loaded,
                        replaced, loadedBy>>
    ELSE IF q = << >>
    THEN /\ Returns("query", s, q, "", Verbatim("Please enter a question!"),
                    NoOutcome, NoMetrics, Json)
         /\ UNCHANGED <<ride_data, session_data, session, uploads, loaded,
                        replaced, loadedBy>>
    ELSE LET r == process_natural_query(ride_data, session_data, q)
         IN /\ ride_data' = r.ride_data
            /\ Returns("query", s, q, "", r.response, NoOutcome, NoMetrics,
                       IF r.response.kind = "raise"
                       THEN ServerError(r.response.text) ELSE Json)
            /\ UNCHANGED <<session_data, session, uploads, loaded, replaced,
                           loadedBy>>

\* POST /query
QueryData(s, q) ==
    IF ~session[s]
    THEN /\ Returns("query", s, q, "", Verbatim("Please upload a ride file first!"),
                    NoOutcome, NoMetrics, Json)
         /\ UNCHANGED <<ride_data, session_data, session, uploads, loaded,
                        replaced, loadedBy>>
    ELSE IF q = << >>
    THEN /\ Returns("query", s, q, "", Verbatim("Please enter a question!"),
                    NoOutcome, NoMetrics, Json)
         /\ UNCHANGED <<ride_data, session_data, session, uploads, loaded,
                        replaced, loadedBy>>
    ELSE LET r == process_natural_query(ride_data, session_data, q)
         IN /\ ride_data' = r.ride_data
            /\ Returns("query", s, q, "",
                       IF r.response.kind = "raise"
                       THEN Response("return", "ErrorProcessing",
                                     r.response.text, NoMetrics, NoZones, "")
                       ELSE r.response,
                       NoOutcome, NoMetrics, Json)
            /\ UNCHANGED <<session_data, session, uploads, loaded, replaced,
                           loadedBy>>

\* A plausible variant: logging out also empties the shared analyzer.
Logout_resets_analyzer(s) ==
    /\ session' = [session EXCEPT ![s] = FALSE]
    /\ ride_data' = NoFrame
    /\ session_data' = NoneDict
    /\ Returns("logout", s, << >>, "", NoResponse, NoOutcome, NoMetrics,
               Redirect("You have been logged out"))
    /\ UNCHANGED <<uploads, loaded, replaced, loadedBy>>

\* GET /auth/logout: session.clear()
Logout(s) ==
    /\ session' = [session EXCEPT ![s] = FALSE]
    /\ Returns("logout", s, << >>, "", NoResponse, NoOutcome, NoMetrics,
               Redirect("You have been logged out"))
    /\ UNCHANGED <<ride_data, session_data, uploads, loaded, replaced, loadedBy>>

AppQueries ==
    {<< >>, <<"second", "half">>, <<"climb">>, <<"power", "zone">>, <<"joke">>}

DemoAny == \E s \in Sessions : Demo(s)
UploadAny == \E s \in Sessions, req \in UploadRequests : Upload(s, req)
QueryAny == \E s \in Sessions, q \in AppQueries : QueryData(s, q)
LogoutAny == \E s \in Sessions : Logout(s)

NextApp == DemoAny \/ UploadAny \/ QueryAny \/ LogoutAny

\* One server process serving the requests of two browser sessions, one
\* request at a time.
SpecApp == Init /\ [][NextApp]_vars

---------------------------------------------------------------------------
\* A load and a question on two threads of the server (app.run serves each
\* request on a thread of its own; the analyzer takes no lock). A step is one
\* statement of load_ride_data, or one part of process_natural_query that
\* reads a field of the analyzer: the analysis reads self.ride_data, the
\* formatting of the answer reads self.session_data afterwards.

\* load_ride_data(df, session_data) is entered.
BeginLoad(a) ==
    /\ loader.pc = "idle"
    /\ loader' = [pc |-> "ride_data", activity |-> a]
    /\ Hands("begin_load", "", << >>, "", NoResponse, NoOutcome, NoMetrics,
             NoPage)
    /\ UNCHANGED <<ride_data, session_data, session, uploads, loaded, replaced,
                   loadedBy, asker, llm>>

\* Line 22: self.ride_data = df
StoreTable ==
    /\ loader.pc = "ride_data"
    /\ ride_data' = loader.activity.ride_data
    /\ loader' = [loader EXCEPT !.pc = "session_data"]
    /\ Hands("store_table", "", << >>, "", NoResponse, NoOutcome, NoMetrics,
             NoPage)
    /\ UNCHANGED <<session_data, session, uploads, loaded, replaced, loadedBy,
                   asker, llm>>

\* Line 23: self.session_data = session_data, and the call returns.
StoreSummary ==
    /\ loader.pc = "session_data"
    /\ session_data' = loader.activity.session_data
    /\ loaded' = loader.activity
    /\ loader' = IdleLoader
    /\ Hands("load", "", << >>, "", NoResponse, NoOutcome, NoMetrics, NoPage)
    /\ UNCHANGED <<ride_data, session, uploads, replaced, loadedBy, asker,
                   llm>>

\* process_natural_query(q) is entered: the guard of line 134.
BeginQuery(q) ==
    /\ asker.pc \in {"idle", "done"}
    /\ asker' = [pc |-> IF ride_data.none THEN "done" ELSE "analysis",
                 q |-> q, ride_data |-> NoFrame, session_data |-> NoneDict]
    /\ Hands("begin_query", "", q, "",
             IF ride_data.none THEN NoDataMessage ELSE NoResponse,
             NoOutcome, NoMetrics, NoPage)
    /\ UNCHANGED <<ride_data, session_data, session, uploads, loaded, replaced,
                   loadedBy, loader, llm>>

\* Lines 148, 161, 212, 224: the segment analysis reads self.ride_data.
Analyse ==
    /\ asker.pc = "analysis"
    /\ asker' = [asker EXCEPT !.pc = "format", !.ride_data = ride_data]
    /\ Hands("analyse", "", asker.q, "", NoResponse, NoOutcome, NoMetrics,
             NoPage)
    /\ UNCHANGED <<ride_data, session_data, session, uploads, loaded, replaced,
                   loadedBy, loader, llm>>

\* Lines 152-158: the answer is formatted from the segment's statistics and
\* self.session_data as it is now, and the call returns.
Format ==
    /\ asker.pc = "format"
    /\ asker' = [asker EXCEPT !.pc = "done", !.session_data = session_data]
    /\ Hands("answer", "", asker.q, "",
             Dispatch(asker.ride_data, session_data, asker.q).response,
             NoOutcome, NoMetrics, NoPage)
    /\ UNCHANGED <<ride_data, session_data, session, uploads, loaded, replaced,
                   loadedBy, loader, llm>>

\* The engine holds one activity; loads of three activities and segment
\* questions arrive on two threads.
InitRace ==
    \E a \in {DemoActivity, RideA, RideB} :
        Holding(a.ride_data, a.session_data, << >>)

NextRace ==
    \/ \E a \in {DemoActivity, RideA, RideB} : BeginLoad(a)
    \/ StoreTable
    \/ StoreSummary
    \/ \E q \in {<<"second", "half">>, <<"first", "half">>,
                  <<"final", "third">>} : BeginQuery(q)
    \/ Analyse
    \/ Format

SpecRace == InitRace /\ [][NextRace]_vars

---------------------------------------------------------------------------
\* HuggingFaceLLMAgent.query_llm (src/src/agents/llm_agent.py): the retry loop
\* around requests.post.

\* What HUGGING_FACE_API_TOKEN can hold, and str.strip() on it.
Tokens == {"", " ", "hf_token"}
Strip(token) == IF token = " " THEN "" ELSE token

\* What one requests.post can come to: status 200 with a non-empty list, with
\* a dict, with an empty list, or with a body that is not JSON (response.json
\* raises); status 503; another status; an exception (timeout, connection).
PostOutcomes ==
    {"200 list", "200 dict", "200 empty list", "200 not json", "503", "500",
     "exception"}

\* The outcomes at which lines 67-74 return generated_text, and the text.
CarriesResult(outcome) == outcome \in {"200 list", "200 dict"}
GeneratedText(outcome) == IF outcome = "200 list" THEN "advice" ELSE ""

\* Lines 26-53: the token check, and the loop entered with attempt = 0 (not
\* entered at all when range(max_retries) is empty).
query_llm(token, max_retries) ==
    /\ llm.pc \in {"idle", "done"}
    /\ llm' = IF Strip(token) = "" \/ max_retries <= 0
              THEN [pc |-> "done", token |-> token,
                    max_retries |-> max_retries, attempt |-> 0, log |-> << >>,
                    returned |-> "None", generated_text |-> ""]
              ELSE [pc |-> "post", token |-> token,
                    max_retries |-> max_retries, attempt |-> 0, log |-> << >>,
                    returned |-> "", generated_text |-> ""]
    /\ Hands("query_llm", "", << >>, "", NoResponse, NoOutcome, NoMetrics,
             NoPage)
    /\ UNCHANGED <<ride_data, session_data, session, uploads, loaded, replaced,
                   loadedBy, loader, asker>>

\* A plausible slip: None returned at the first request that fails.
Post_gives_up(outcome) ==
    /\ llm.pc = "post"
    /\ llm' = IF CarriesResult(outcome)
              THEN [llm EXCEPT !.pc = "done", !.log = Append(@, outcome),
                               !.returned = "text",
                               !.generated_text = GeneratedText(outcome)]
              ELSE [llm EXCEPT !.pc = "done", !.log = Append(@, outcome),
                               !.returned = "None"]
    /\ Hands("post", "", << >>, "", NoResponse, NoOutcome, NoMetrics, NoPage)
    /\ UNCHANGED <<ride_data, session_data, session, uploads, loaded, replaced,
                   loadedBy, loader, asker>>

\* Lines 54-90, one iteration: the request is sent and its outcome handled.
\* A result is returned; after anything else the loop goes on to the next
\* attempt (after a sleep on 503 and on an exception, when attempts remain),
\* and line 92 returns None when range(max_retries) is used up.
Post(outcome) ==
    /\ llm.pc = "post"
    /\ llm' = IF CarriesResult(outcome)
              THEN [llm EXCEPT !.pc = "done", !.log = Append(@, outcome),
                               !.returned = "text",
                               !.generated_text = GeneratedText(outcome)]
              ELSE IF llm.attempt < llm.max_retries - 1
              THEN [llm EXCEPT !.attempt = @ + 1, !.log = Append(@, outcome)]
              ELSE [llm EXCEPT !.pc = "done", !.log = Append(@, outcome),
                               !.returned = "None"]
    /\ Hands("post", "", << >>, "", NoResponse, NoOutcome, NoMetrics, NoPage)
    /\ UNCHANGED <<ride_data, session_data, session, uploads, loaded, replaced,
                   loadedBy, loader, asker>>

CallLLM == \E token \in Tokens, max_retries \in 0..MaxRetries :
               query_llm(token, max_retries)
PostAny == \E outcome \in PostOutcomes : Post(outcome)

NextLLM == CallLLM \/ PostAny

\* Calls of query_llm one after the other; every request sent comes back or
\* fails (requests.post is given timeout=30), so the loop always goes on.
SpecLLM == Init /\ [][NextLLM]_vars /\ WF_vars(PostAny)

---------------------------------------------------------------------------
\* Router precedence.

\* The eight intents in the order the specification lists them, each with
\* the test that makes a lowercased text match it.
Matches(rule, text) ==
    CASE rule = 1 -> \/ Contains(text, <<"second", "half">>)
                     \/ Contains(text, <<"last", "half">>)
      [] rule = 2 -> Contains(text, <<"first", "half">>)
      [] rule = 3 -> Contains(text, <<"climb">>)
      [] rule = 4 -> Contains(text, <<"power">>) /\ Contains(text, <<"zone">>)
      [] rule = 5 -> Contains(text, <<"average">>) /\ Contains(text, <<"speed">>)
      [] rule = 6 -> Contains(text, <<"heart", "rate">>)
      [] rule = 7 -> \/ Contains(text, <<"last", "third">>)
                     \/ Contains(text, <<"final", "third">>)
      [] rule = 8 -> Contains(text, <<"first", "third">>)

Rules == 1..8

\* The earliest-listed rule the text matches, 9 (help) when it matches none.
FirstMatch(text) ==
    IF \E r \in Rules : Matches(r, text)
    THEN CHOOSE r \in Rules :
             Matches(r, text) /\ \A e \in Rules : e < r => ~Matches(e, text)
    ELSE 9

\* The rule whose branch rendered a response: by its template, or by the
\* analysis whose message or exception it carries.
RuleOf(resp) ==
    CASE resp.template = "SecondHalf" -> 1
      [] resp.template = "FirstHalf" -> 2
      [] resp.template = "Climb" -> 3
      [] resp.text \in {"No altitude data available",
                        "No climbs steeper than 2.5% found in this ride",
                        "KeyError: 'gradient'"} -> 3
      [] resp.template = "PowerZones" -> 4
      [] resp.text \in {"No power data available", "No valid power data"} -> 4
      [] resp.template = "AverageSpeed" -> 5
      [] resp.template = "HeartRate" -> 6
      [] resp.template = "FinalThird" -> 7
      [] resp.template = "FirstThird" -> 8
      [] resp.template = "Help" -> 9
      [] OTHER -> 0

\* C1: in the Loaded state the response to a question is rendered by the
\* branch of the earliest-listed intent its lowercased text matches (the help
\* branch when it matches none); in particular a question containing both
\* "first half" and "climb", and neither "second half" nor "last half", gets
\* the first-half template.
C1_FirstMatchWins ==
    (op = "answer" /\ ~ride_data.none) =>
        /\ RuleOf(response) = FirstMatch(Lower(query))
        /\ (/\ Matches(2, Lower(query)) /\ Matches(3, Lower(query))
            /\ ~Matches(1, Lower(query)))
               => response.template = "FirstHalf"

\* C1 witness: "Climb first HALF" was asked and answered from the first-half
\* template.
C1_Witness ==
    /\ op = "answer"
    /\ query = <<"Climb", "first", "HALF">>
    /\ response.kind = "return"
    /\ response.template = "FirstHalf"

---------------------------------------------------------------------------
\* Replacement on load.

\* C2: once a load has replaced an earlier activity, every answer is the one
\* process_natural_query gives on the table and summary of the last load, and
\* the analyzer holds that table (with at most its own gradient column
\* added) and that summary.
C2_AnswerFromLastLoad ==
    ~loaded.ride_data.none =>
        /\ session_data = loaded.session_data
        /\ ride_data.rows # loaded.ride_data.rows =>
               ride_data = SetGradient(loaded.ride_data,
                                       AltitudeCol(loaded.ride_data))
        /\ op = "answer" =>
               response = process_natural_query(loaded.ride_data,
                              loaded.session_data, query).response

\* C2 witness: a second load replaced a different table and summary, and a
\* second-half question was then answered from a template.
C2_Witness ==
    /\ replaced
    /\ op = "answer"
    /\ response.template = "SecondHalf"
    /\ FrameLen(ride_data) = MaxRows

---------------------------------------------------------------------------
\* NoData.

\* C5: while no table is loaded, answering any question returns the
\* capability message and leaves the analyzer's table and summary as they
\* were.
C5_NoDataAnswer ==
    [][(op' = "answer" /\ ride_data.none) =>
           /\ response' = NoDataMessage
           /\ ride_data' = ride_data
           /\ session_data' = session_data
           /\ loaded' = loaded]_vars

\* C5 witness: a question matching the climb intent was asked with nothing
\* loaded and got the capability message.
C5_Witness ==
    /\ op = "answer"
    /\ ride_data.none
    /\ Intent(Lower(query)) = "climb"
    /\ response = NoDataMessage

---------------------------------------------------------------------------
\* The help branch.

\* C10 as claimed: with a table loaded, a question matching no intent is
\* answered, for every summary including an absent one, from the help
\* template with the row count of the loaded table and the summary's total
\* distance (0 when it has none), and nothing is raised.
C10_HelpNeverRaises ==
    (op = "answer" /\ ~ride_data.none /\ FirstMatch(Lower(query)) = 9) =>
        /\ response.kind = "return"
        /\ response.template = "Help"
        /\ response.values["data_points"] = FromInt(FrameLen(ride_data))
        /\ response.values["total_distance"] =
               Times(Get(session_data, "total_distance", Zero), METERS_TO_MILES)

---------------------------------------------------------------------------
\* Gradient caching.

\* C4 as claimed: once the gradient column is on the table, a climb analysis
\* leaves it as it is (it reads the cached column and does not recompute).
C4_GradientMemoized ==
    [][(op' = "answer" /\ "gradient" \in ride_data.columns) =>
           Column(ride_data', "gradient") = Column(ride_data, "gradient")]_vars

\* C4 amended: a climb analysis on a table with an altitude and a distance
\* column writes, on every call, the gradient of the altitude and distance
\* values the table holds at that call, and answers from that column.
C4_GradientRecomputed ==
    [][(/\ op' = "answer"
        /\ AltitudeCol(ride_data) # "none"
        /\ "distance" \in ride_data.columns) =>
           /\ "gradient" \in ride_data'.columns
           /\ \A i \in 1..FrameLen(ride_data) :
                  ride_data'.rows[i]["gradient"] =
                      Val(GradientAt(ride_data, AltitudeCol(ride_data), i))
           /\ LET steep == Filter(ride_data', IsSteep)
              IN response' =
                     IF FrameLen(steep) = 0
                     THEN Verbatim("No climbs steeper than 2.5% found in this ride")
                     ELSE ClimbAnswer(MetricsOutcome(ClimbMetrics(steep)))]_vars

\* C4 witness: after the caller changed the loaded table, a climb question
\* was answered from a gradient column that is the gradient of the changed
\* values and differs from the gradient of the values loaded.
C4_Witness ==
    /\ op = "answer"
    /\ "gradient" \in ride_data.columns
    /\ ride_data = SetGradient(ride_data, AltitudeCol(ride_data))
    /\ Column(ride_data, "gradient") #
           Column(SetGradient(loaded.ride_data, AltitudeCol(loaded.ride_data)),
                  "gradient")
    /\ response.template = "Climb"

---------------------------------------------------------------------------
\* The metrics extractor.

Numeric(x) == x.den > 0

OwnKeys(f) ==
    CASE f = "total_time" -> <<"total_timer_time">>
      [] f = "avg_speed" -> <<"enhanced_avg_speed", "avg_speed">>
      [] f = "max_speed" -> <<"enhanced_max_speed", "max_speed">>
      [] OTHER -> <<f>>

\* The unit factor applied to a headline field.
UnitFactor(f) ==
    CASE f = "total_distance" -> METERS_TO_MILES
      [] f = "total_time" -> SECONDS_PER_HOUR
      [] f \in {"avg_speed", "max_speed"} -> MPS_TO_MPH
      [] f \in {"total_ascent", "total_descent"} -> METERS_TO_FEET
      [] OTHER -> FromInt(1)

\* The value of the first key of keys the summary holds, 0 if it holds none.
FirstPresent(sd, keys) ==
    IF \E i \in 1..Len(keys) : Has(sd, keys[i])
    THEN FromInt(sd.d[keys[CHOOSE i \in 1..Len(keys) :
                         /\ Has(sd, keys[i])
                         /\ \A j \in 1..(i - 1) : ~Has(sd, keys[j])]])
    ELSE Zero

\* C7 as claimed: every headline field is the converted value of its enhanced
\* key if present, else of its plain key, else 0.
C7_OwnKeysOnly ==
    (op = "extract" /\ DOMAIN metrics = MetricFields) =>
        \A f \in MetricFields :
            metrics[f] = Times(FirstPresent(session_data, OwnKeys(f)),
                               UnitFactor(f))

\* C7 amended: for a non-empty table, every headline field other than
\* max_power is the converted value of its enhanced key if present, else of
\* its plain key, else 0; max_power is the value of max_power if present, else
\* the value of normalized_power if present, else 0.
C7_OwnKeysExceptMaxPower ==
    (op = "extract" /\ DOMAIN metrics = MetricFields) =>
        \A f \in MetricFields :
            metrics[f] =
                Times(FirstPresent(session_data,
                          IF f = "max_power"
                          THEN <<"max_power", "normalized_power">>
                          ELSE OwnKeys(f)),
                      UnitFactor(f))

\* C7 witness: a summary with normalized_power and without max_power, with
\* both speed keys, was extracted: max_power reports normalized_power and
\* avg_speed the enhanced key.
C7_Witness ==
    /\ op = "extract"
    /\ DOMAIN metrics = MetricFields
    /\ Has(session_data, "normalized_power")
    /\ ~Has(session_data, "max_power")
    /\ Has(session_data, "avg_speed")
    /\ Has(session_data, "enhanced_avg_speed")
    /\ metrics["max_power"] = FromInt(SummaryValue("normalized_power"))
    /\ metrics["avg_speed"] =
           Times(FromInt(SummaryValue("enhanced_avg_speed")), MPS_TO_MPH)

---------------------------------------------------------------------------
\* Position segments.

\* rows[lo : hi] of the loaded table, 0-based and half-open.
RowsOf(lo, hi) == [i \in 1..(hi - lo) |-> ride_data.rows[lo + i]]

ExpectedSegment(t) ==
    LET n == FrameLen(ride_data)
    IN CASE t = "first_half" -> RowsOf(0, n \div 2)
         [] t = "second_half" -> RowsOf(n \div 2, n)
         [] t = "first_third" -> RowsOf(0, n \div 3)
         [] t = "last_third" -> RowsOf((2 * n) \div 3, n)

\* C8: for the loaded table of n rows each segment type selects the
\* integer-division slice in original order; the halves are disjoint and
\* together are the table; the thirds do not overlap; and the statistics
\* returned are those of that slice, data_points being its length.
C8_SegmentSlices ==
    LET n == FrameLen(ride_data)
    IN /\ \A t \in SegmentTypes :
              SegmentData(ride_data, t).rows = ExpectedSegment(t)
       /\ ExpectedSegment("first_half") \o ExpectedSegment("second_half")
              = ride_data.rows
       /\ Len(SegmentData(ride_data, "first_half").rows)
              + Len(SegmentData(ride_data, "second_half").rows) = n
       /\ SegmentRange("first_third", n)[2] <= SegmentRange("last_third", n)[1]
       /\ (op = "segments" /\ segment_type \in SegmentTypes) =>
              /\ result.kind = "metrics"
              /\ result.metrics =
                     SegmentMetrics(Frame(ride_data.columns,
                                          ExpectedSegment(segment_type)))
              /\ result.metrics["data_points"] =
                     FromInt(Len(ExpectedSegment(segment_type)))

\* C8 witness: the last third of a table of two rows was analysed and is its
\* second row alone.
C8_Witness ==
    /\ op = "segments"
    /\ segment_type = "last_third"
    /\ FrameLen(ride_data) = 2
    /\ "speed" \in ride_data.columns
    /\ result.metrics["data_points"] = FromInt(1)
    /\ result.metrics["max_speed"] =
           Times(FromInt(ride_data.rows[2]["speed"][1]), MPS_TO_MPH)

---------------------------------------------------------------------------
\* Power zones.

ZoneFactors == <<0, 55, 75, 90, 105, 120>>

\* p lies in zone z of the threshold ftp: factor[z] * ftp <= 100 * p, and
\* 100 * p < factor[z + 1] * ftp unless z is the last zone.
Within(z, p, ftp) ==
    /\ ZoneFactors[z] * ftp.num <= 100 * p * ftp.den
    /\ z < 6 => 100 * p * ftp.den < ZoneFactors[z + 1] * ftp.num

RECURSIVE SumPercentages(_, _)
SumPercentages(zones, z) ==
    IF z = 0 THEN Zero
    ELSE Plus(zones[z].time_percentage, SumPercentages(zones, z - 1))

\* C9: for a table whose power column has a non-missing sample, zone
\* analysis returns six zones; every non-missing sample lies in exactly one
\* of them; each percentage is 100 times the zone's count over the count of
\* all non-missing samples; and the six percentages sum to 100.
C9_ZonesSumTo100 ==
    (/\ op = "zones"
     /\ "power" \in ride_data.columns
     /\ DropNa(Column(ride_data, "power")) # << >>) =>
        LET power_data == DropNa(Column(ride_data, "power"))
            n == Len(power_data)
            ftp == Quantile90(power_data)
            members(z) == {i \in 1..n : Within(z, power_data[i][1], ftp)}
        IN /\ result.kind = "zones"
           /\ Len(result.zones) = 6
           /\ \A i \in 1..n :
                  Cardinality({z \in 1..6 : i \in members(z)}) = 1
           /\ \A z \in 1..6 :
                  result.zones[z].time_percentage =
                      Frac(100 * Cardinality(members(z)), n)
           /\ SumPercentages(result.zones, 6) = FromInt(100)

\* C9 witness: a power column with a missing sample and two samples in
\* different zones was analysed.
C9_Witness ==
    /\ op = "zones"
    /\ result.kind = "zones"
    /\ Missing \in {ride_data.rows[i]["power"] : i \in 1..FrameLen(ride_data)}
    /\ Cardinality({z \in 1..6 :
                       result.zones[z].time_percentage = FromInt(50)}) = 2

---------------------------------------------------------------------------
\* Session scoping.

\* C3 as claimed: a question that passes a session's ride_loaded gate is
\* answered from the activity that session itself loaded last, whatever the
\* other sessions have loaded since.
C3_SessionScoped ==
    (op = "query" /\ session[who] /\ query # << >>) =>
        /\ ~loadedBy[who].ride_data.none
        /\ LET own == process_natural_query(loadedBy[who].ride_data,
                          loadedBy[who].session_data, query).response
           IN response = IF own.kind = "raise"
                         THEN Response("return", "ErrorProcessing", own.text,
                                       NoMetrics, NoZones, "")
                         ELSE own

---------------------------------------------------------------------------
\* The comparison in the second-half answer.

\* The overall average speed in mph as the summary gives it: the enhanced
\* value when it has one, else the plain one, else 0.
OverallAverageSpeed(sd) ==
    Times(IF Has(sd, "enhanced_avg_speed")
          THEN FromInt(sd.d["enhanced_avg_speed"])
          ELSE IF Has(sd, "avg_speed") THEN FromInt(sd.d["avg_speed"])
          ELSE Zero,
          MPS_TO_MPH)

\* C11 as claimed: the second-half answer says "sped up" exactly when the
\* second half's average speed is greater than the summary's overall average
\* speed (enhanced_avg_speed when present, avg_speed otherwise), and "slowed
\* down" otherwise.
C11_ComparesOverallAverage ==
    (op = "answer" /\ response.template = "SecondHalf") =>
        response.verdict =
            IF Greater(response.values["avg_speed"],
                       OverallAverageSpeed(session_data))
            THEN "sped up" ELSE "slowed down"

---------------------------------------------------------------------------
\* Climb analysis without a distance column.

\* C12 as claimed: a climb analysis on a loaded table never raises; with an
\* altitude column and no distance column it returns statistics or a
\* message.
C12_ClimbNeverRaises ==
    op = "gradient" => result.kind \in {"error", "message", "metrics"}

---------------------------------------------------------------------------
\* Exceptions while a question is answered.

\* The text process_natural_query raises on the activity held when the
\* question q is put to it, "" when it returns.
RaisedBy(q) ==
    LET r == process_natural_query(ride_data, session_data, q).response
    IN IF r.kind = "raise" THEN r.text ELSE ""

\* C13 as claimed: when answering a gated question raises, the caller gets a
\* generic message as a normal response: one fixed text, which carries
\* nothing of the exception.
C13_GenericMessage ==
    [][(/\ op' = "query" /\ session[who'] /\ query' # << >>
        /\ RaisedBy(query') # "") =>
           /\ response'.kind = "return"
           /\ response'.text = ""]_vars

\* C13 amended: process_natural_query itself lets the exception out; the
\* /query handler catches it and answers with a normal JSON response made of
\* "Error processing query: " and the exception's own text, and leaves the
\* session flags, the summary and the uploads as they were.
C13_CaughtByHandler ==
    [][op' = "query" =>
           /\ response'.kind = "return"
           /\ page' = Json
           /\ session' = session
           /\ session_data' = session_data
           /\ uploads' = uploads
           /\ (session[who'] /\ query' # << >> /\ RaisedBy(query') # "") =>
                  response' = Response("return", "ErrorProcessing",
                                       RaisedBy(query'), NoMetrics, NoZones, "")]_vars

\* C13 witness: a session that passed the gate asked a climb question of a
\* table without a distance column and got the KeyError's text in a normal
\* response.
C13_Witness ==
    /\ op = "query"
    /\ session[who]
    /\ response.kind = "return"
    /\ response.template = "ErrorProcessing"
    /\ response.text = "KeyError: 'gradient'"
    /\ page = Json

---------------------------------------------------------------------------
\* Error and empty conditions of the analyses.

\* The segment type the router passes for each of the four segment rules.
SegmentOfRule(rule) ==
    CASE rule = 1 -> "second_half"
      [] rule = 2 -> "first_half"
      [] rule = 7 -> "last_third"
      [] rule = 8 -> "first_third"

\* C14: when the analysis the router dispatches to signals a condition (the
\* climb analysis "No altitude data available" or "No climbs steeper than
\* 2.5% found in this ride", the zone analysis "No power data available" or
\* "No valid power data", a segment analysis an error), the answer is that
\* condition's message and nothing else: no template, no statistics.
C14_ConditionVerbatim ==
    (op = "answer" /\ ~loaded.ride_data.none) =>
        LET df == loaded.ride_data
            rule == FirstMatch(Lower(query))
            climb == calculate_gradient_analysis(df).result
            zones == analyze_power_zones(df)
        IN /\ (rule = 3 /\ climb.kind \in {"error", "message"}) =>
                  /\ response = Verbatim(climb.text)
                  /\ climb.text \in
                         {"No altitude data available",
                          "No climbs steeper than 2.5% found in this ride"}
           /\ (rule = 3 /\ AltitudeCol(df) = "none") =>
                  response = Verbatim("No altitude data available")
           /\ (rule = 4 /\ zones.kind = "error") =>
                  /\ response = Verbatim(zones.text)
                  /\ zones.text \in
                         {"No power data available", "No valid power data"}
           /\ (rule = 4 /\ "power" \notin df.columns) =>
                  response = Verbatim("No power data available")
           /\ (rule = 4 /\ "power" \in df.columns
                        /\ \A i \in 1..FrameLen(df) :
                               df.rows[i]["power"] = Missing) =>
                  response = Verbatim("No valid power data")
           /\ (rule \in {1, 2, 7, 8}
                 /\ analyze_ride_segments(df, SegmentOfRule(rule)).kind
                        = "error") =>
                  response = Verbatim(
                      analyze_ride_segments(df, SegmentOfRule(rule)).text)

\* C14 witness: a power-zone question about a table whose power column holds
\* rows but no reading was answered "No valid power data".
C14_Witness ==
    /\ op = "answer"
    /\ "power" \in ride_data.columns
    /\ FrameLen(ride_data) >= 2
    /\ response = Verbatim("No valid power data")
    /\ response.values = NoMetrics

---------------------------------------------------------------------------
\* A load concurrent with a question.

\* C15 as claimed: whatever the interleaving of a load with a question in
\* progress, the table and the summary an answer was computed from are those
\* of one and the same activity.
C15_AnswerFromOneActivity ==
    (op = "answer" /\ asker.pc = "done") =>
        \E a \in {DemoActivity, RideA, RideB} :
            /\ asker.ride_data = a.ride_data
            /\ asker.session_data = a.session_data

---------------------------------------------------------------------------
\* Selection of the climbs.

\* The rows of df whose gradient is more than 5/2, as row numbers.
SteeperThanThreshold(df) ==
    {i \in 1..FrameLen(df) :
        LET g == df.rows[i]["gradient"][1]
        IN 2 * g.num > 5 * g.den}

\* The members of a set of row numbers in ascending order.
Ascending(S) ==
    CHOOSE f \in [1..Cardinality(S) -> S] :
        \A a, b \in 1..Cardinality(S) : a < b => f[a] < f[b]

\* C16: a climb analysis that gets as far as the selection selects exactly
\* the rows whose gradient is strictly greater than 2.5 (a row at exactly 2.5
\* is left out), in the order of the table; with no such row it returns the
\* "no climbs" message, which is not an error outcome, and otherwise
\* statistics of the selected rows with climb_segments their number.
C16_StrictThreshold ==
    (op = "gradient" /\ "gradient" \in ride_data.columns
                     /\ AltitudeCol(ride_data) # "none") =>
        LET sel == SteeperThanThreshold(ride_data)
            order == Ascending(sel)
            rows == [j \in 1..Cardinality(sel) |-> ride_data.rows[order[j]]]
        IN IF sel = {}
           THEN /\ result.kind = "message"
                /\ result.text = "No climbs steeper than 2.5% found in this ride"
                /\ result # ErrorOutcome(result.text)
           ELSE /\ result.kind = "metrics"
                /\ result.metrics["climb_segments"] = FromInt(Cardinality(sel))
                /\ Filter(ride_data, IsSteep).rows = rows
                /\ result.metrics = ClimbMetrics(Frame(ride_data.columns, rows))
                /\ \E i \in sel :
                       result.metrics["steepest_gradient"] =
                           ride_data.rows[i]["gradient"][1]

\* C16 witness: of three rows, one at exactly 2.5 percent and one steeper,
\* only the steeper one was counted.
C16_Witness ==
    /\ op = "gradient"
    /\ result.kind = "metrics"
    /\ FrameLen(ride_data) = 3
    /\ ride_data.rows[2]["gradient"] = Val(Frac(5, 2))
    /\ result.metrics["climb_segments"] = FromInt(1)
    /\ result.metrics["steepest_gradient"] = FromInt(10)

---------------------------------------------------------------------------
\* Segments without data.

\* C17 as claimed: for every loaded table, a table of 0 or 1 rows included,
\* every statistic analyze_ride_segments returns is a defined number, and it
\* is 0 where the segment holds no row.
C17_SegmentStatisticsDefined ==
    (op = "segments" /\ result.kind = "metrics") =>
        \A k \in DOMAIN result.metrics :
            /\ ~IsNaN(result.metrics[k])
            /\ result.metrics["data_points"] = Zero => result.metrics[k] = Zero

---------------------------------------------------------------------------
\* The values of the gradient column.

\* C18: after a climb analysis of a table with an altitude and a distance
\* column, the gradient of the first row, of every row at the same distance
\* as the row before it and of every row whose ratio is not finite (a reading
\* is missing) is 0; the gradient of every other row is the altitude delta
\* over the distance delta from the row before, times 100, the altitude
\* being enhanced_altitude when the table has that column and altitude
\* otherwise. No first or stationary row is selected as a climb.
C18_GradientValues ==
    (/\ op = "gradient"
     /\ "distance" \in loaded.ride_data.columns
     /\ {"altitude", "enhanced_altitude"} \cap loaded.ride_data.columns # {}) =>
        LET df == loaded.ride_data
            col == IF "enhanced_altitude" \in df.columns
                   THEN "enhanced_altitude" ELSE "altitude"
            Known(i) ==
                Missing \notin {df.rows[i][col], df.rows[i - 1][col],
                                df.rows[i]["distance"],
                                df.rows[i - 1]["distance"]}
            Delta(c, i) == df.rows[i][c][1] - df.rows[i - 1][c][1]
            Flat(i) == i = 1 \/ ~Known(i) \/ Delta("distance", i) = 0
        IN /\ FrameLen(ride_data) = FrameLen(df)
           /\ \A i \in 1..FrameLen(df) :
                  /\ ride_data.rows[i]["gradient"] =
                         Val(IF Flat(i) THEN Zero
                             ELSE Quot(100 * Delta(col, i),
                                       Delta("distance", i)))
                  /\ Flat(i) => i \notin SteeperThanThreshold(ride_data)
           /\ result.kind = "metrics" =>
                  result.metrics["climb_segments"].num <=
                      Cardinality({i \in 1..FrameLen(df) : ~Flat(i)})

\* C18 witness: in a table with both altitude columns the second row is at
\* the distance of the first with another altitude and has gradient 0, and
\* the third has the gradient of the enhanced altitudes (40), not of the
\* plain ones (20).
C18_Witness ==
    /\ op = "gradient"
    /\ FrameLen(ride_data) = 3
    /\ {"altitude", "enhanced_altitude", "gradient"} \subseteq ride_data.columns
    /\ ride_data.rows[2]["distance"] = ride_data.rows[1]["distance"]
    /\ ride_data.rows[2]["altitude"] # ride_data.rows[1]["altitude"]
    /\ Missing \notin {ride_data.rows[i]["altitude"] : i \in 1..3}
    /\ ride_data.rows[2]["gradient"] = Val(Zero)
    /\ ride_data.rows[3]["gradient"] = Val(FromInt(40))
    /\ ride_data.rows[3]["altitude"][1] - ride_data.rows[2]["altitude"][1] = 2
    /\ result.metrics["climb_segments"] = FromInt(1)

---------------------------------------------------------------------------
\* What answering leaves alone.

\* C19: answering a question changes neither the summary, nor the number or
\* the order of the rows, nor the value of any column other than gradient,
\* nor the set of the other columns; and a question of any intent but the
\* climb one leaves the whole table as it was.
C19_OnlyGradientAdded ==
    [][op' = "answer" =>
           /\ session_data' = session_data
           /\ loaded' = loaded
           /\ ride_data'.none = ride_data.none
           /\ FrameLen(ride_data') = FrameLen(ride_data)
           /\ ride_data'.columns \ {"gradient"} =
                  ride_data.columns \ {"gradient"}
           /\ \A i \in 1..FrameLen(ride_data) :
                  \A c \in ride_data.columns \ {"gradient"} :
                      ride_data'.rows[i][c] = ride_data.rows[i][c]
           /\ FirstMatch(Lower(query')) # 3 => ride_data' = ride_data]_vars

\* C19 witness: after a climb question added the gradient column to a table
\* loaded without one, a second-half question was answered and the table
\* still holds the rows loaded, in their order.
C19_Witness ==
    /\ op = "answer"
    /\ response.template = "SecondHalf"
    /\ "gradient" \in ride_data.columns
    /\ "gradient" \notin loaded.ride_data.columns
    /\ FrameLen(ride_data) = MaxRows
    /\ \A i \in 1..FrameLen(ride_data) :
           \A c \in loaded.ride_data.columns :
               ride_data.rows[i][c] = loaded.ride_data.rows[i][c]
    /\ session_data = loaded.session_data

---------------------------------------------------------------------------
\* The ride_loaded flag and the analyzer's table.

\* C20: in one server process, whenever a session's ride_loaded flag is set
\* the shared analyzer holds a table; once it holds one it never goes back
\* to holding none; and a question that passes the flag's gate is never
\* answered with the capability message of the NoData state.
C20_FlagImpliesTable ==
    [][/\ \A s \in Sessions : session'[s] => ~ride_data'.none
       /\ ~ride_data.none => ~ride_data'.none
       /\ (op' = "query" /\ session[who'] /\ query' # << >>) =>
              /\ response'.kind = "return"
              /\ response' # NoDataMessage]_vars

\* C20 witness: a session with its flag set got a second-half answer after
\* another session had loaded a ride and logged out, and after a rejected
\* upload left its file in the upload folder.
C20_Witness ==
    /\ op = "query"
    /\ session[who]
    /\ response.template = "SecondHalf"
    /\ \E s \in Sessions \ {who} :
           ~session[s] /\ ~loadedBy[s].ride_data.none
    /\ uploads # {}

---------------------------------------------------------------------------
\* Uploads that fail.

\* An upload request that fails in one of the ways listed: no file part, an
\* empty file name, an extension that is not allowed, a zip archive without a
\* *.fit member, or a file the decoder cannot parse.
FailingUpload(req) ==
    \/ ~req.part
    \/ req.filename = << >>
    \/ ~allowed_file(req.filename)
    \/ EndsWithZip(req.filename) /\ req.content = "zipEmpty"
    \/ EndsWithZip(req.filename) /\ req.content = "zipGarbage"
    \/ ~EndsWithZip(req.filename) /\ req.content \notin {"fitA", "fitB", "fitEmpty"}

\* C21: an upload request that fails never loads: the analyzer's table and
\* summary and every session's ride_loaded flag are after the request what
\* they were before it, and no results page is rendered.
C21_FailedUploadChangesNothing ==
    [][op' = "upload" =>
           \A req \in UploadRequests :
               (FailingUpload(req) /\ Upload(who', req)) =>
                   /\ ride_data' = ride_data
                   /\ session_data' = session_data
                   /\ session' = session
                   /\ loaded' = loaded
                   /\ loadedBy' = loadedBy
                   /\ page'.view # "results"]_vars

\* C21 witness: a session that had loaded a ride uploaded a file the decoder
\* could not parse; the analyzer still holds the ride and the flag is set.
C21_Witness ==
    /\ op = "upload"
    /\ page = Redirect("Error parsing file")
    /\ session[who]
    /\ ~ride_data.none
    /\ Activity(ride_data, session_data) = loadedBy[who]

---------------------------------------------------------------------------
\* The saved copy of an uploaded file.

\* C23 as claimed: an upload request that has been handled and has returned
\* (a results page or a redirect) leaves no file in the upload folder that
\* was not there before it: the copy it saved has been deleted again.
C23_SavedCopyDeleted ==
    [][(op' = "upload" /\ page'.view \in {"results", "redirect"}) =>
           uploads' \subseteq uploads]_vars

---------------------------------------------------------------------------
\* The retry loop of query_llm.

\* C22: a query_llm call sends at most max_retries requests and always
\* returns. It returns the generated text at the first request that comes
\* back with status 200 and a result; it goes on to another request, after a
\* 503 or an exception as after any other outcome without a result, only
\* while attempts remain; it returns None when max_retries requests have
\* brought no result; and without a token it returns None having sent
\* nothing.
C22_BoundedRetries ==
    /\ [](/\ llm.max_retries >= 0 => Len(llm.log) <= llm.max_retries
          /\ \A i \in 1..(Len(llm.log) - 1) : ~CarriesResult(llm.log[i])
          /\ (llm.pc = "done" /\ llm.returned = "text") =>
                 /\ llm.log # << >>
                 /\ CarriesResult(llm.log[Len(llm.log)])
                 /\ llm.generated_text = GeneratedText(llm.log[Len(llm.log)])
          /\ (llm.pc = "done" /\ llm.returned = "None") =>
                 /\ \A i \in 1..Len(llm.log) : ~CarriesResult(llm.log[i])
                 /\ Len(llm.log) =
                        IF Strip(llm.token) = "" THEN 0 ELSE llm.max_retries
          /\ llm.pc = "done" => llm.returned \in {"text", "None"}
          /\ llm.pc = "post" => Len(llm.log) < llm.max_retries)
    /\ [][(llm.pc = "post" /\ llm'.pc = "post") =>
              /\ Len(llm'.log) = Len(llm.log) + 1
              /\ Len(llm'.log) < llm.max_retries
              /\ ~CarriesResult(llm'.log[Len(llm'.log)])]_vars
    /\ (llm.pc = "post" ~> llm.pc = "done")

\* C22 witness: with max_retries = 3, a 503 and an exception were each
\* followed by another request, and the third request brought the text.
C22_Witness ==
    /\ llm.pc = "done"
    /\ llm.max_retries = 3
    /\ llm.log = <<"503", "exception", "200 list">>
    /\ llm.returned = "text"
    /\ llm.generated_text = "advice"

====
